---- MODULE Spec2Model ----
(***************************************************************************)
(* A model of package args (src/args.go): the tokenizer rawArgsMap, the   *)
(* tag parser parseTagData, parse with its three destinations              *)
(* (parseStruct, fillSlice, parseMap) and the usage renderer Usage.        *)
(*                                                                         *)
(* Strings are sequences of one-character strings, so that HasPrefix,      *)
(* slicing, Split, ToLower and the numeric conversions are computed and    *)
(* not assumed.  A reflect.Type is a record with a field "kind"; a value   *)
(* is a record with a field "t" naming its dynamic type.                   *)
(***************************************************************************)
EXTENDS Integers, Sequences, FiniteSets, TLC

VARIABLES
    call,     \* which entry point runs: "parse" or "Usage"
    data,     \* the argument: [ptr |-> is it a pointer, typ |-> its (element) type]
    argv,     \* the token list handed to parse
    dest,     \* the contents of the destination (or of Usage's struct)
    orig,     \* the contents of the destination when the call started
    pc,       \* the function the call is executing
    args,     \* rawArgsMap's local slice: the tokens not yet consumed
    result,   \* rawArgsMap's map, then rawData of parseStruct / parseMap
    iter,     \* number of iterations of rawArgsMap's loop so far
    fi,       \* parseStruct / Usage: index of the next field
    todo,     \* parseMap: keys of rawData that the range loop has not visited
    out,      \* what Usage has written to w, one element per Fprint call
    err       \* the returned error; NoErr while running or on success

vars == <<call, data, argv, dest, orig, pc, args, result, iter, fi, todo, out, err>>

-----------------------------------------------------------------------------
(* Bounds *)

MaxArgs == 3      \* longest token list parsed into a struct or a slice
MaxMapArgs == 4   \* longest token list parsed into a map
MaxSpin == 2      \* rawArgsMap iterations explored beyond one per token

-----------------------------------------------------------------------------
(* strings *)

HasPrefix(s, p) == Len(s) >= Len(p) /\ SubSeq(s, 1, Len(p)) = p

Upper == <<"A","B","C","D","E","F","G","H","I","J","K","L","M",
           "N","O","P","Q","R","S","T","U","V","W","X","Y","Z">>
Lower == <<"a","b","c","d","e","f","g","h","i","j","k","l","m",
           "n","o","p","q","r","s","t","u","v","w","x","y","z">>

ToLowerChar(c) ==
    IF \E k \in 1..26 : Upper[k] = c
    THEN Lower[CHOOSE k \in 1..26 : Upper[k] = c]
    ELSE c

ToLower(s) == [k \in 1..Len(s) |-> ToLowerChar(s[k])]

\* strings.Split(s, ","): the pieces between commas (one piece if none)
RECURSIVE SplitFrom(_, _)
SplitFrom(s, cur) ==
    IF s = <<>> THEN <<cur>>
    ELSE IF Head(s) = "," THEN <<cur>> \o SplitFrom(Tail(s), <<>>)
    ELSE SplitFrom(Tail(s), Append(cur, Head(s)))

Split(s) == SplitFrom(s, <<>>)

Drop(a, n) == SubSeq(a, n + 1, Len(a))
Drop2(s) == Drop(s, 2)

-----------------------------------------------------------------------------
(* strconv, as called with base 0 (ParseInt, ParseUint) and for decimal   *)
(* literals (ParseFloat).  Underscores, exponents, hexadecimal floats,     *)
(* "inf" and "nan" do not occur in the token alphabets below.              *)

Digits == <<"0","1","2","3","4","5","6","7","8","9","a","b","c","d","e","f">>

IsDigit(c, base) == \E k \in 1..base : Digits[k] = ToLowerChar(c)
DigitVal(c) == (CHOOSE k \in 1..16 : Digits[k] = ToLowerChar(c)) - 1

RECURSIVE Pow(_, _)
Pow(b, n) == IF n = 0 THEN 1 ELSE b * Pow(b, n - 1)

RECURSIVE DigitsVal(_, _, _)
DigitsVal(s, base, acc) ==
    IF s = <<>> THEN acc
    ELSE DigitsVal(Tail(s), base, acc * base + DigitVal(Head(s)))

\* un < 2^bits.  Widths above 30 bits exceed the integers of the checker;
\* every literal of the token alphabets is far below them.
Fits(un, bits) == bits > 30 \/ un < Pow(2, bits)

AllDigits(s, base) == \A k \in 1..Len(s) : IsDigit(s[k], base)

\* the base that a base-0 literal selects, and the digits after the prefix
BasePrefix(s) ==
    IF s # <<>> /\ s[1] = "0"
    THEN IF Len(s) >= 3 /\ ToLowerChar(s[2]) = "b" THEN [base |-> 2, rest |-> Drop2(s)]
         ELSE IF Len(s) >= 3 /\ ToLowerChar(s[2]) = "o" THEN [base |-> 8, rest |-> Drop2(s)]
         ELSE IF Len(s) >= 3 /\ ToLowerChar(s[2]) = "x" THEN [base |-> 16, rest |-> Drop2(s)]
         ELSE [base |-> 8, rest |-> Tail(s)]
    ELSE [base |-> 10, rest |-> s]

\* strconv.ParseUint(s, 0, bits): [ok, n]
ParseUint(s, bits) ==
    IF s = <<>> THEN [ok |-> FALSE, n |-> 0]
    ELSE LET bp == BasePrefix(s)
         IN IF ~AllDigits(bp.rest, bp.base) THEN [ok |-> FALSE, n |-> 0]
            ELSE LET un == DigitsVal(bp.rest, bp.base, 0)
                 IN IF ~Fits(un, bits) THEN [ok |-> FALSE, n |-> 0]
                    ELSE [ok |-> TRUE, n |-> un]

\* strconv.ParseInt(s, 0, bits): [ok, n]
ParseInt(s, bits) ==
    IF s = <<>> THEN [ok |-> FALSE, n |-> 0]
    ELSE LET neg  == s[1] = "-"
             body == IF s[1] = "+" \/ s[1] = "-" THEN Tail(s) ELSE s
             u    == ParseUint(body, bits)
         IN IF ~u.ok THEN [ok |-> FALSE, n |-> 0]
            ELSE IF ~neg /\ ~Fits(u.n, bits - 1) THEN [ok |-> FALSE, n |-> 0]
            ELSE IF neg /\ ~Fits(u.n - 1, bits - 1) THEN [ok |-> FALSE, n |-> 0]
            ELSE [ok |-> TRUE, n |-> IF neg THEN 0 - u.n ELSE u.n]

\* position of the first "." of s, or 0
DotAt(s) ==
    IF \E k \in 1..Len(s) : s[k] = "."
    THEN CHOOSE k \in 1..Len(s) : s[k] = "." /\ \A j \in 1..(k - 1) : s[j] # "."
    ELSE 0

\* a decimal value mant * 10^(-exp) without trailing zeros in the fraction
RECURSIVE Normal(_, _)
Normal(mant, exp) ==
    IF exp > 0 /\ mant % 10 = 0 THEN Normal(mant \div 10, exp - 1)
    ELSE [mant |-> mant, exp |-> exp]

\* strconv.ParseFloat(s, bits) on decimal literals: [ok, f]
ParseFloat(s, bits) ==
    LET neg  == s # <<>> /\ s[1] = "-"
        body == IF s # <<>> /\ (s[1] = "+" \/ s[1] = "-") THEN Tail(s) ELSE s
        d    == DotAt(body)
        ip   == IF d = 0 THEN body ELSE SubSeq(body, 1, d - 1)
        fp   == IF d = 0 THEN <<>> ELSE SubSeq(body, d + 1, Len(body))
        zero == [mant |-> 0, exp |-> 0]
    IN IF ip \o fp = <<>> \/ ~AllDigits(ip \o fp, 10)
       THEN [ok |-> FALSE, f |-> zero]
       ELSE LET m == DigitsVal(ip \o fp, 10, 0)
            IN [ok |-> TRUE, f |-> Normal(IF neg THEN 0 - m ELSE m, Len(fp))]

\* strconv.Itoa as used by %v on an integer
RECURSIVE FormatUint(_)
FormatUint(n) ==
    IF n < 10 THEN <<Digits[n + 1]>>
    ELSE Append(FormatUint(n \div 10), Digits[(n % 10) + 1])

FormatInt(n) == IF n < 0 THEN <<"-">> \o FormatUint(0 - n) ELSE FormatUint(n)

-----------------------------------------------------------------------------
(* rawArgsMap and munchArgs *)

NoErr == [kind |-> "nil", name |-> <<>>]
Error(k, n) == [kind |-> k, name |-> n]

Get(m, k) == IF k \in DOMAIN m THEN m[k] ELSE <<>>
Put(m, k, v) == [x \in (DOMAIN m) \cup {k} |-> IF x = k THEN v ELSE m[x]]
EmptyMap == [x \in {} |-> <<>>]

\* result[key] = vals, dropping what the key held
CollectOverwrite(m, key, vals) == Put(m, key, vals)

\* result[key] = append(result[key], vals...)
Collect(m, key, vals) == Put(m, key, Get(m, key) \o vals)

\* munchArgs stopping at any token that begins with "-"
RECURSIVE munchArgsDash(_)
munchArgsDash(a) ==
    IF a = <<>> THEN <<>>
    ELSE IF ~HasPrefix(Head(a), <<"-">>)
         THEN <<Head(a)>> \o munchArgsDash(Tail(a))
         ELSE <<>>

RECURSIVE munchArgs(_)
munchArgs(a) ==
    IF a = <<>> THEN <<>>
    ELSE IF ~HasPrefix(Head(a), <<"-", "-">>)
         THEN <<Head(a)>> \o munchArgs(Tail(a))
         ELSE <<>>

\* the keys the loop "for i := 2; i < len(args[0]); i++" assigns:
\* args[0][i-1:i] is the character at (1-based) position i
ClusterKeys(tok) == { <<tok[i]>> : i \in 2..(Len(tok) - 1) }

ClusterPut(m, tok) ==
    [x \in (DOMAIN m) \cup ClusterKeys(tok) |->
        IF x \in ClusterKeys(tok) THEN <<>> ELSE m[x]]

InRaw == pc = "rawArgsMap" /\ iter < Len(argv) + MaxSpin

Frame == UNCHANGED <<call, data, argv, orig>>

RawLong ==
    /\ InRaw /\ args # <<>>
    /\ HasPrefix(args[1], <<"-", "-">>)
    /\ LET key  == Drop(args[1], 2)
           vals == munchArgs(Tail(args))
       IN /\ result' = Collect(result, key, vals)
          /\ args' = Drop(Tail(args), Len(vals))
    /\ iter' = iter + 1
    /\ UNCHANGED <<dest, pc, fi, todo, out, err>> /\ Frame

RawCluster ==
    /\ InRaw /\ args # <<>>
    /\ ~HasPrefix(args[1], <<"-", "-">>)
    /\ HasPrefix(args[1], <<"-">>)
    /\ Len(args[1]) > 2
    /\ result' = ClusterPut(result, args[1])
    /\ args' = Tail(args)
    /\ iter' = iter + 1
    /\ UNCHANGED <<dest, pc, fi, todo, out, err>> /\ Frame

RawShort ==
    /\ InRaw /\ args # <<>>
    /\ ~HasPrefix(args[1], <<"-", "-">>)
    /\ HasPrefix(args[1], <<"-">>)
    /\ ~(Len(args[1]) > 2)
    /\ LET key  == Drop(args[1], 1)
           vals == munchArgs(Tail(args))
       IN /\ result' = Collect(result, key, vals)
          /\ args' = Drop(Tail(args), Len(vals))
    /\ iter' = iter + 1
    /\ UNCHANGED <<dest, pc, fi, todo, out, err>> /\ Frame

\* neither branch of the if / else if applies: the body does nothing
RawNone ==
    /\ InRaw /\ args # <<>>
    /\ ~HasPrefix(args[1], <<"-", "-">>)
    /\ ~HasPrefix(args[1], <<"-">>)
    /\ iter' = iter + 1
    /\ UNCHANGED <<dest, pc, args, result, fi, todo, out, err>> /\ Frame

\* len(args) = 0: return result to the caller (parseStruct or parseMap)
RawReturn ==
    /\ pc = "rawArgsMap" /\ args = <<>>
    /\ pc' = IF data.typ.kind = "struct" THEN "parseStruct" ELSE "parseMap"
    /\ todo' = DOMAIN result
    /\ fi' = 1
    /\ UNCHANGED <<dest, args, result, iter, out, err>> /\ Frame

-----------------------------------------------------------------------------
(* reflect: types and values *)

\* every type has the same record shape; elem and key hold zero or one type
T(k)          == [kind |-> k, elem |-> <<>>, key |-> <<>>, fields |-> <<>>]
PtrTo(e)      == [kind |-> "ptr", elem |-> <<e>>, key |-> <<>>, fields |-> <<>>]
SliceOf(e)    == [kind |-> "slice", elem |-> <<e>>, key |-> <<>>, fields |-> <<>>]
MapOf(k, e)   == [kind |-> "map", elem |-> <<e>>, key |-> <<k>>, fields |-> <<>>]
StructOf(fs)  == [kind |-> "struct", elem |-> <<>>, key |-> <<>>, fields |-> fs]
Elem(ty)      == ty.elem[1]
Key(ty)       == ty.key[1]

\* a reflect.StructField; Tag is the value of the tag's "args" key
Field(n, ty, tag, pkg, anon) ==
    [Name |-> n, Type |-> ty, Tag |-> tag, PkgPath |-> pkg, Anonymous |-> anon]

IntKinds   == {"int", "int8", "int16", "int32", "int64"}
UintKinds  == {"uint", "uint8", "uint16", "uint32", "uint64"}
FloatKinds == {"float32", "float64"}

\* reflect.Type.Bits (int and uint are 64 bits wide)
Bits(k) ==
    CASE k \in {"int8", "uint8"}               -> 8
      [] k \in {"int16", "uint16"}             -> 16
      [] k \in {"int32", "uint32", "float32"}  -> 32
      [] OTHER                                 -> 64

\* every value has the same record shape: t names its dynamic type, n is an
\* integer (or a float's mantissa, with e its decimal exponent), b a bool,
\* s a string, l the elements of a slice or struct or the target of a
\* pointer, m the entries of a map
Nil          == [t |-> "nil", n |-> 0, e |-> 0, b |-> FALSE, s |-> <<>>, l |-> <<>>, m |-> EmptyMap]
StrV(str)    == [Nil EXCEPT !.t = "string", !.s = str]
BoolV(b)     == [Nil EXCEPT !.t = "bool", !.b = b]
IntV(k, n)   == [Nil EXCEPT !.t = k, !.n = n]
FloatV(k, f) == [Nil EXCEPT !.t = k, !.n = f.mant, !.e = f.exp]
SliceV(l)    == [Nil EXCEPT !.t = "slice", !.l = l]
StructV(l)   == [Nil EXCEPT !.t = "struct", !.l = l]
MapV(m)      == [Nil EXCEPT !.t = "map", !.m = m]
Ref(v)       == [Nil EXCEPT !.t = "ptr", !.l = <<v>>]   \* a pointer to a variable holding v
Marker       == [Nil EXCEPT !.t = "struct{}"]            \* struct{}{}
StrListV(ss) == [Nil EXCEPT !.t = "[]string", !.l = [k \in 1..Len(ss) |-> StrV(ss[k])]]
FZero        == [mant |-> 0, exp |-> 0]

\* reflect.Zero / reflect.New(...).Elem(): the zero value of a type
RECURSIVE Zero(_)
Zero(ty) ==
    CASE ty.kind = "string"      -> StrV(<<>>)
      [] ty.kind = "bool"        -> BoolV(FALSE)
      [] ty.kind \in IntKinds \cup UintKinds -> IntV(ty.kind, 0)
      [] ty.kind \in FloatKinds  -> FloatV(ty.kind, FZero)
      [] ty.kind = "struct"      ->
            StructV([k \in 1..Len(ty.fields) |-> Zero(ty.fields[k].Type)])
      [] OTHER                   -> Nil

-----------------------------------------------------------------------------
(* parseTagData *)

TagParts(tag) == Split(tag)

ShortFlagOf(parts) ==
    LET hits == { k \in 2..Len(parts) :
                    HasPrefix(parts[k], <<"-">>) /\ Len(parts[k]) = 2 }
    IN IF hits = {} THEN <<>>
       ELSE Drop(parts[CHOOSE k \in hits : \A j \in hits : j <= k], 1)

RequiredOf(parts) ==
    \E k \in 2..Len(parts) :
        /\ ~(HasPrefix(parts[k], <<"-">>) /\ Len(parts[k]) = 2)
        /\ parts[k] = <<"r">>

parseTagData(tag) ==
    LET parts == TagParts(tag)
    IN [Description |-> parts[1],
        Required    |-> RequiredOf(parts),
        ShortFlag   |-> ShortFlagOf(parts)]

-----------------------------------------------------------------------------
(* checkArgLen, fillSlice and the switch of parseStruct *)

checkArgLen(d, name) ==
    IF Len(d) = 0 THEN Error("not set", name)
    ELSE IF Len(d) > 1 THEN Error("more than once", name)
    ELSE NoErr

\* the conversion of one string to a value of scalar kind k: [ok, v]
ParseScalar(k, s) ==
    CASE k \in IntKinds   -> LET r == ParseInt(s, Bits(k))   IN [ok |-> r.ok, v |-> IntV(k, r.n)]
      [] k \in UintKinds  -> LET r == ParseUint(s, Bits(k))  IN [ok |-> r.ok, v |-> IntV(k, r.n)]
      [] k \in FloatKinds -> LET r == ParseFloat(s, Bits(k)) IN [ok |-> r.ok, v |-> FloatV(k, r.f)]
      [] OTHER            -> [ok |-> TRUE, v |-> StrV(s)]

\* fillSlice storing the new slice before its elements are converted
fillSliceSetFirst(ty, old, a) ==
    LET ek == Elem(ty).kind
    IN IF ek \notin {"string"} \cup IntKinds \cup UintKinds \cup FloatKinds
       THEN [err |-> Error("unsupported slice type", <<>>), v |-> old]
       ELSE IF \E k \in 1..Len(a) : ~ParseScalar(ek, a[k]).ok
       THEN [err |-> Error("strconv", <<>>),
             v   |-> SliceV([k \in 1..Len(a) |-> Zero(Elem(ty))])]
       ELSE [err |-> NoErr,
             v   |-> SliceV([k \in 1..Len(a) |-> ParseScalar(ek, a[k]).v])]

\* fillSlice(v, args): [err, v] where v is the slice variable afterwards
fillSlice(ty, old, a) ==
    LET ek == Elem(ty).kind
    IN IF ek \notin {"string"} \cup IntKinds \cup UintKinds \cup FloatKinds
       THEN [err |-> Error("unsupported slice type", <<>>), v |-> old]
       ELSE IF \E k \in 1..Len(a) : ~ParseScalar(ek, a[k]).ok
       THEN [err |-> Error("strconv", <<>>), v |-> old]
       ELSE [err |-> NoErr,
             v   |-> SliceV([k \in 1..Len(a) |-> ParseScalar(ek, a[k]).v])]

\* the switch on ftype.Kind() of parseStruct: [err, v], v the variable fval
\* refers to afterwards (cur is what it holds when the switch is entered)
SetField(ty, cur, d, name) ==
    CASE ty.kind = "string" ->
            IF checkArgLen(d, name) # NoErr
            THEN [err |-> checkArgLen(d, name), v |-> cur]
            ELSE [err |-> NoErr, v |-> StrV(d[1])]
      [] ty.kind = "bool" ->
            IF Len(d) # 0
            THEN [err |-> Error("boolean option has parameter", name), v |-> cur]
            ELSE [err |-> NoErr, v |-> BoolV(TRUE)]
      [] ty.kind \in IntKinds \cup UintKinds \cup FloatKinds ->
            IF checkArgLen(d, name) # NoErr
            THEN [err |-> checkArgLen(d, name), v |-> cur]
            ELSE IF ~ParseScalar(ty.kind, d[1]).ok
            THEN [err |-> Error("strconv", <<>>), v |-> cur]
            ELSE [err |-> NoErr, v |-> ParseScalar(ty.kind, d[1]).v]
      [] ty.kind = "slice" -> fillSlice(ty, cur, d)
      [] OTHER -> [err |-> Error("unsupported type", <<>>), v |-> cur]

\* lines 212-268 for one field whose flag data is d: a pointer field is
\* first set to a new zero value, and the switch then works on its target
AssignField(field, cur, d, name) ==
    IF field.Type.kind = "ptr"
    THEN LET r == SetField(Elem(field.Type), Zero(Elem(field.Type)), d, name)
         IN [err |-> r.err, v |-> Ref(r.v)]
    ELSE SetField(field.Type, cur, d, name)

-----------------------------------------------------------------------------
(* fmt: %v and %q of the values a struct field can hold *)

\* %v of a float that needs no exponent
FormatFloat(f) ==
    LET neg == f.mant < 0
        ds  == FormatUint(IF neg THEN 0 - f.mant ELSE f.mant)
        pad == IF Len(ds) > f.exp THEN ds
               ELSE [k \in 1..(f.exp + 1 - Len(ds)) |-> "0"] \o ds
        ip  == SubSeq(pad, 1, Len(pad) - f.exp)
        fp  == SubSeq(pad, Len(pad) - f.exp + 1, Len(pad))
    IN (IF neg THEN <<"-">> ELSE <<>>) \o ip \o
       (IF f.exp = 0 THEN <<>> ELSE <<".">> \o fp)

\* %v; a nil slice prints as []
RECURSIVE FormatV(_), JoinV(_)
FormatV(x) ==
    CASE x.t = "string" -> x.s
      [] x.t = "bool"   -> IF x.b THEN <<"t","r","u","e">> ELSE <<"f","a","l","s","e">>
      [] x.t \in IntKinds \cup UintKinds -> FormatInt(x.n)
      [] x.t \in FloatKinds -> FormatFloat([mant |-> x.n, exp |-> x.e])
      [] x.t = "slice"  -> <<"[">> \o JoinV(x.l) \o <<"]">>
      [] x.t = "struct" -> <<"{">> \o JoinV(x.l) \o <<"}">>
      [] OTHER          -> <<"[", "]">>

JoinV(xs) ==
    IF xs = <<>> THEN <<>>
    ELSE IF Len(xs) = 1 THEN FormatV(xs[1])
    ELSE FormatV(xs[1]) \o <<" ">> \o JoinV(Tail(xs))

\* %q of a string of printable characters without quotes or backslashes
Quote(str) == <<"\"">> \o str \o <<"\"">>

-----------------------------------------------------------------------------
(* Usage and usageForField *)

UsageHeader == <<"u","s","a","g","e",":","\n">>

usageForField(field, fieldVal) ==
    LET td    == parseTagData(field.Tag)
        short == IF td.ShortFlag # <<>>
                 THEN <<" ", "-">> \o td.ShortFlag \o <<",", "\t">>
                 ELSE <<" ", "\t">>
        name  == ToLower(field.Name)
    IN IF field.Type.kind # "ptr"
       THEN LET defaultValue == IF field.Type.kind = "string"
                                THEN Quote(fieldVal.s)
                                ELSE FormatV(fieldVal)
            IN short \o <<"-", "-">> \o name
                     \o <<"\t","(","d","e","f","a","u","l","t",":"," ">>
                     \o defaultValue \o <<")", "\t">> \o td.Description \o <<"\n">>
       ELSE short \o <<"-", "-">> \o name \o <<"\t", "\t">>
                  \o td.Description \o <<"\n">>

NumField == Len(data.typ.fields)

UsageStart ==
    /\ pc = "Usage"
    /\ IF data.ptr \/ data.typ.kind # "struct"
       THEN /\ err' = Error("can only print usage with struct", <<>>)
            /\ pc' = "done"
            /\ UNCHANGED <<out, fi>>
       ELSE /\ out' = out \o UsageHeader
            /\ fi' = 1
            /\ pc' = "usageFields"
            /\ err' = err
    /\ UNCHANGED <<dest, args, result, iter, todo>> /\ Frame

UsageField ==
    /\ pc = "usageFields" /\ fi <= NumField
    /\ out' = IF data.typ.fields[fi].PkgPath = <<>>
              THEN out \o usageForField(data.typ.fields[fi], dest.l[fi])
              ELSE out
    /\ fi' = fi + 1
    /\ UNCHANGED <<dest, pc, args, result, iter, todo, err>> /\ Frame

UsageReturn ==
    /\ pc = "usageFields" /\ fi > NumField
    /\ pc' = "done"
    /\ UNCHANGED <<dest, args, result, iter, fi, todo, out, err>> /\ Frame

-----------------------------------------------------------------------------
(* parse, getType *)

getType ==
    IF ~data.ptr THEN Error("non-pointer", <<>>)
    ELSE CASE data.typ.kind \in {"struct", "slice"} -> NoErr
           [] data.typ.kind = "map" ->
                IF Key(data.typ).kind # "string"
                THEN Error("map key type must be string", <<>>)
                ELSE NoErr
           [] OTHER -> Error("invalid type for unmarshal", <<>>)

Parse ==
    /\ pc = "parse"
    /\ IF getType # NoErr
       THEN /\ err' = getType
            /\ pc' = "done"
            /\ UNCHANGED <<dest, args, result>>
       ELSE IF data.typ.kind = "slice"
       THEN /\ dest' = fillSlice(data.typ, dest, argv).v
            /\ err' = fillSlice(data.typ, dest, argv).err
            /\ pc' = "done"
            /\ UNCHANGED <<args, result>>
       ELSE /\ pc' = "rawArgsMap"       \* first statement of parseStruct, parseMap
            /\ args' = argv
            /\ result' = EmptyMap
            /\ UNCHANGED <<dest, err>>
    /\ UNCHANGED <<iter, fi, todo, out>> /\ Frame

-----------------------------------------------------------------------------
(* parseStruct: one iteration of the loop over the fields per step *)

CurField == data.typ.fields[fi]
CurName  == ToLower(CurField.Name)
CurTag   == parseTagData(CurField.Tag)
Skipped  == CurField.PkgPath # <<>> \/ CurField.Anonymous
Found    == CurName \in DOMAIN result \/ CurTag.ShortFlag \in DOMAIN result
CurData  == IF CurName \in DOMAIN result THEN result[CurName]
            ELSE result[CurTag.ShortFlag]

InFields == pc = "parseStruct" /\ fi <= NumField

\* the two "continue" statements
ParseStructSkip ==
    /\ InFields
    /\ Skipped \/ (~Found /\ ~CurTag.Required)
    /\ fi' = fi + 1
    /\ UNCHANGED <<dest, pc, args, result, iter, todo, out, err>> /\ Frame

ParseStructRequired ==
    /\ InFields /\ ~Skipped
    /\ ~Found /\ CurTag.Required
    /\ err' = Error("required argument was not supplied", CurName)
    /\ pc' = "done"
    /\ UNCHANGED <<dest, args, result, iter, fi, todo, out>> /\ Frame

ParseStructAssign ==
    /\ InFields /\ ~Skipped
    /\ Found
    /\ LET r == AssignField(CurField, dest.l[fi], CurData, CurName)
       IN /\ dest' = [dest EXCEPT !.l[fi] = r.v]
          /\ err' = r.err
          /\ IF r.err # NoErr
             THEN pc' = "done" /\ fi' = fi
             ELSE pc' = pc /\ fi' = fi + 1
    /\ UNCHANGED <<args, result, iter, todo, out>> /\ Frame

ParseStructReturn ==
    /\ pc = "parseStruct" /\ fi > NumField
    /\ pc' = "done"
    /\ UNCHANGED <<dest, args, result, iter, fi, todo, out, err>> /\ Frame

-----------------------------------------------------------------------------
(* parseMap: one iteration of "for key, value := range rawData" per step; *)
(* the order in which range visits the keys is not specified               *)

\* Infer trying the float conversion before the integer conversion
InferFloatFirst(value) ==
    IF Len(value) = 0 THEN Marker
    ELSE IF Len(value) = 1
    THEN IF ParseFloat(value[1], 64).ok THEN FloatV("float64", ParseFloat(value[1], 64).f)
         ELSE IF ParseInt(value[1], 64).ok THEN IntV("int64", ParseInt(value[1], 64).n)
         ELSE StrV(value[1])
    ELSE StrListV(value)

\* the value stored for a key of a map[string]interface{}
Infer(value) ==
    IF Len(value) = 0 THEN Marker
    ELSE IF Len(value) = 1
    THEN IF ParseInt(value[1], 64).ok THEN IntV("int64", ParseInt(value[1], 64).n)
         ELSE IF ParseFloat(value[1], 64).ok THEN FloatV("float64", ParseFloat(value[1], 64).f)
         ELSE StrV(value[1])
    ELSE StrListV(value)

ParseMapString ==
    /\ pc = "parseMap" /\ Elem(data.typ).kind = "string"
    /\ \E key \in todo :
        LET value == result[key]
        IN /\ dest' = MapV(Put(dest.m, key, StrV(IF Len(value) = 0 THEN <<>> ELSE value[1])))
           /\ IF Len(value) > 1
              THEN /\ err' = Error("more than once", key)
                   /\ pc' = "done"
                   /\ todo' = todo
              ELSE /\ todo' = todo \ {key}
                   /\ UNCHANGED <<err, pc>>
    /\ UNCHANGED <<args, result, iter, fi, out>> /\ Frame

ParseMapInterface ==
    /\ pc = "parseMap" /\ Elem(data.typ).kind = "interface"
    /\ \E key \in todo :
        /\ dest' = MapV(Put(dest.m, key, Infer(result[key])))
        /\ todo' = todo \ {key}
    /\ UNCHANGED <<pc, args, result, iter, fi, out, err>> /\ Frame

ParseMapInvalid ==
    /\ pc = "parseMap" /\ Elem(data.typ).kind \notin {"string", "interface"}
    /\ err' = Error("invalid type for unmarshal", <<>>)
    /\ pc' = "done"
    /\ UNCHANGED <<dest, args, result, iter, fi, todo, out>> /\ Frame

ParseMapReturn ==
    /\ pc = "parseMap" /\ Elem(data.typ).kind \in {"string", "interface"}
    /\ todo = {}
    /\ pc' = "done"
    /\ UNCHANGED <<dest, args, result, iter, fi, todo, out, err>> /\ Frame

-----------------------------------------------------------------------------
(* The inputs: record types, destinations and token alphabets *)

Exported == <<>>                   \* PkgPath of an exported field
PkgArgs  == <<"a", "r", "g", "s">>       \* PkgPath of an unexported field

\* eg/main.go: type Args and defaultArgs = Args{Foo: 5}
ArgsT == StructOf(<<
    Field(<<"F", "o", "o">>, T("int"),     <<"t", "h", "i", "s", " ", "i", "s", " ", "a", " ", "f", "o", "o", ",", "-", "f">>, Exported, FALSE),
    Field(<<"B", "a", "r">>, T("float32"), <<"t", "h", "i", "s", " ", "i", "s", " ", "a", " ", "b", "a", "r", ",", "r">>, Exported, FALSE),
    Field(<<"B", "a", "z">>, T("string"),  <<"a", " ", "b", "a", "z", "!", ",", "r">>, Exported, FALSE) >>)

defaultArgs == StructV(<<IntV("int", 5), FloatV("float32", FZero), StrV(<<>>)>>)

\* type Positionals struct { data []string }
PositionalsT == StructOf(<<Field(<<"d", "a", "t", "a">>, SliceOf(T("string")), <<>>, PkgArgs, FALSE)>>)

\* the nullable fields of TestStruct's type Test, with a list of numbers
\* for Sliceptr, an embedded Positionals and a required Boolptr
TestT == StructOf(<<
    Field(<<"I", "n", "t", "8", "p", "t", "r">>, PtrTo(T("int8")),          <<"f", "o", "o", " ", "b", "a", "r">>, Exported, FALSE),
    Field(<<"S", "t", "r", "i", "n", "g", "p", "t", "r">>, PtrTo(T("string")),        <<>>, Exported, FALSE),
    Field(<<"S", "l", "i", "c", "e", "p", "t", "r">>, PtrTo(SliceOf(T("int8"))), <<>>, Exported, FALSE),
    Field(<<"u", "n", "e", "x", "p", "o", "r", "t", "e", "d">>, T("int"),                  <<>>, PkgArgs,  FALSE),
    Field(<<"P", "o", "s", "i", "t", "i", "o", "n", "a", "l", "s">>, PositionalsT,              <<>>, Exported, TRUE),
    Field(<<"B", "o", "o", "l", "p", "t", "r">>, PtrTo(T("bool")),          <<"a", "n", "o", "t", "h", "e", "r", " ", "s", "w", "i", "t", "c", "h", ",", "-", "p", ",", "r">>, Exported, FALSE) >>)

\* a Test whose nullable fields are unset, and one where two are set
TestUnset == Zero(TestT)
TestSet   == StructV(<<Ref(IntV("int8", 7)), Nil, Ref(SliceV(<<IntV("int8", 1)>>)),
                       IntV("int", 0), Zero(PositionalsT), Nil>>)

\* type UsageTest
UsageTestT == StructOf(<<
    Field(<<"S", "a", "l", "a", "d">>, T("string"),         <<"t", "y", "p", "e", " ", "o", "f", " ", "s", "a", "l", "a", "d", " ", "t", "o", " ", "e", "a", "t", ",", "-", "s">>, Exported, FALSE),
    Field(<<"P", "i", "e">>, T("int"),            <<"n", "u", "m", "b", "e", "r", " ", "o", "f", " ", "p", "i", "e", "s", " ", "t", "o", " ", "e", "a", "t", ",", "-", "p">>, Exported, FALSE),
    Field(<<"N", "a", "c", "h", "o", "s">>, PtrTo(T("float32")), <<"n", "a", "c", "h", "o", " ", "q", "u", "o", "t", "i", "e", "n", "t">>, Exported, FALSE) >>)

ArgsTokens == {<<"-", "-", "f", "o", "o">>, <<"-", "f">>, <<"-", "-", "b", "a", "r">>, <<"-", "-", "b", "a", "z">>, <<"5">>, <<"1", ".", "5">>, <<"x">>, <<"-", "-">>, <<"-">>}

TestTokens == {<<"-", "-", "i", "n", "t", "8", "p", "t", "r">>, <<"-", "-", "s", "t", "r", "i", "n", "g", "p", "t", "r">>, <<"-", "-", "s", "l", "i", "c", "e", "p", "t", "r">>, <<"-", "-", "b", "o", "o", "l", "p", "t", "r">>, <<"-", "p">>, <<"-", "p", "q">>, <<"5">>, <<"3", "0", "0">>, <<"x">>, <<"-", "-">>}

MapTokens == {<<"-", "-", "a">>, <<"-", "-", "b">>, <<"-", "a">>, <<"-", "a", "b">>, <<"v">>, <<"5">>, <<"1", ".", "5">>, <<>>}

SliceTokens == {<<"-", "-", "f", "o", "o">>, <<"5">>, <<"3", "0", "0">>, <<"-", "1">>, <<"1", ".", "5">>, <<"x">>}

\* the state when the call c(&ty or ty, a) starts, d the contents of the
\* destination
Start(c, ptr, ty, a, d) ==
    /\ call = c
    /\ data = [ptr |-> ptr, typ |-> ty]
    /\ argv = a
    /\ dest = d
    /\ orig = d
    /\ pc = c
    /\ args = <<>>
    /\ result = EmptyMap
    /\ iter = 0
    /\ fi = 1
    /\ todo = {}
    /\ out = <<>>
    /\ err = NoErr

SliceTypes == { SliceOf(T(k)) : k \in {"string", "int8", "uint8", "float64", "bool"} }

InitStruct ==
    \E n \in 0..MaxArgs :
        \/ \E a \in [1..n -> ArgsTokens], d \in {defaultArgs, Zero(ArgsT)} :
                Start("parse", TRUE, ArgsT, a, d)
        \/ \E a \in [1..n -> TestTokens], d \in {TestUnset, TestSet} :
                Start("parse", TRUE, TestT, a, d)

InitSlice ==
    \E n \in 0..MaxArgs : \E a \in [1..n -> SliceTokens] :
        \/ \E ty \in SliceTypes, d \in {Nil, SliceV(<<>>)} : Start("parse", TRUE, ty, a, d)
        \/ Start("parse", TRUE, SliceOf(T("int8")), a, SliceV(<<IntV("int8", 7)>>))
        \/ Start("parse", FALSE, SliceOf(T("string")), a, Nil)
        \/ n <= 1 /\ Start("parse", TRUE, T("int"), a, IntV("int", 0))

InitMap ==
    \E n \in 0..MaxMapArgs : \E a \in [1..n -> MapTokens] :
        \/ \E e \in {"string", "interface"} :
                Start("parse", TRUE, MapOf(T("string"), T(e)), a, MapV(EmptyMap))
        \/ \E k \in {"string", "int"} :
                n <= 1 /\ Start("parse", TRUE, MapOf(T(k), T("int")), a, MapV(EmptyMap))

InitUsage ==
    \/ Start("Usage", FALSE, UsageTestT, <<>>, Zero(UsageTestT))
    \/ Start("Usage", FALSE, ArgsT, <<>>, defaultArgs)
    \/ \E d \in {TestUnset, TestSet} : Start("Usage", FALSE, TestT, <<>>, d)
    \/ Start("Usage", TRUE, UsageTestT, <<>>, Zero(UsageTestT))
    \/ Start("Usage", FALSE, T("int"), <<>>, IntV("int", 1))
    \/ Start("Usage", FALSE, SliceOf(T("string")), <<>>, Nil)

Init == InitStruct \/ InitSlice \/ InitMap \/ InitUsage

Next ==
    \/ Parse
    \/ RawLong \/ RawCluster \/ RawShort \/ RawNone \/ RawReturn
    \/ ParseStructSkip \/ ParseStructRequired \/ ParseStructAssign \/ ParseStructReturn
    \/ ParseMapString \/ ParseMapInterface \/ ParseMapInvalid \/ ParseMapReturn
    \/ UsageStart \/ UsageField \/ UsageReturn

Spec == Init /\ [][Next]_vars

TypeOK ==
    /\ call \in {"parse", "Usage"}
    /\ pc \in {"parse", "rawArgsMap", "parseStruct", "parseMap", "Usage", "usageFields", "done"}
    /\ iter \in 0..(Len(argv) + MaxSpin)
    /\ Len(args) <= Len(argv)

-----------------------------------------------------------------------------
(* Properties of the tokenizer *)

LongMarker == <<"-", "-">>

\* rawArgsMap has returned to parseStruct or parseMap
RawDone == call = "parse" /\ pc \in {"parseStruct", "parseMap"}

\* a step that is one iteration of rawArgsMap's loop
RawIteration == pc = "rawArgsMap" /\ args # <<>> /\ iter' = iter + 1

\* the length of the maximal run of tokens at the front of a that do not
\* begin with "--"
RunLen(a) ==
    CHOOSE n \in 0..Len(a) :
        /\ \A k \in 1..n : ~HasPrefix(a[k], LongMarker)
        /\ n = Len(a) \/ HasPrefix(a[n + 1], LongMarker)

IsLongFlag(tok)  == HasPrefix(tok, LongMarker)
IsShortFlag(tok) == ~HasPrefix(tok, LongMarker) /\ HasPrefix(tok, <<"-">>) /\ Len(tok) = 2
IsCluster(tok)   == ~HasPrefix(tok, LongMarker) /\ HasPrefix(tok, <<"-">>) /\ Len(tok) >= 3
IsBare(tok)      == ~HasPrefix(tok, <<"-">>)
FlagKey(tok)     == IF IsLongFlag(tok) THEN Drop(tok, 2) ELSE Drop(tok, 1)

IsPrefixOf(a, b) == Len(a) <= Len(b) /\ SubSeq(b, 1, Len(a)) = a

C1_Step ==
    (RawIteration /\ (IsLongFlag(args[1]) \/ IsShortFlag(args[1]))) =>
        LET key == FlagKey(args[1])
            n   == RunLen(Tail(args))
        IN /\ key \in DOMAIN result'
           /\ result'[key] = Get(result, key) \o SubSeq(args, 2, n + 1)
           /\ DOMAIN result' = DOMAIN result \cup {key}
           /\ args' = Drop(args, n + 1)

C1_Single ==
    (/\ RawDone
     /\ argv # <<>> /\ IsLongFlag(argv[1])
     /\ \A k \in 2..Len(argv) : ~HasPrefix(argv[k], LongMarker))
    => (DOMAIN result = {Drop(argv[1], 2)} /\ result[Drop(argv[1], 2)] = Tail(argv))

\* C1: a flag token reached at top level becomes a key, and the values
\* collected for it are exactly the maximal run of following tokens that do
\* not begin with "--", in order (a single-dash token in the run included);
\* the tokens ["--k", v1..vn] give exactly {k: [v1..vn]}.
C1_ValueCollection == [](C1_Single) /\ [][C1_Step]_vars

\* a flag followed by two values, the second a single-dash token, tokenized
C1_Witness ==
    /\ RawDone /\ Len(argv) = 3
    /\ IsLongFlag(argv[1]) /\ IsBare(argv[2]) /\ IsShortFlag(argv[3])
    /\ result[Drop(argv[1], 2)] = Tail(argv)

C2_Step ==
    RawIteration =>
        /\ Len(args') < Len(args)
        /\ IsBare(args[1]) => (args' = Tail(args) /\ result' = result)

\* C2: every iteration of rawArgsMap's loop consumes at least one token, and
\* a bare token at top level is skipped, adding no key and no value.
C2_Terminates == [][C2_Step]_vars

C3_Step ==
    (RawIteration /\ IsCluster(args[1])) =>
        /\ \A k \in 2..Len(args[1]) : <<args[1][k]>> \in DOMAIN result'
        /\ args' = Tail(args)

\* C3: a cluster -c1..cn (n >= 2) reached at top level makes every one of
\* c1..cn a key and is consumed as one token.
C3_ClusterKeys == [][C3_Step]_vars

C4_Step ==
    pc = "rawArgsMap" =>
        \A k \in DOMAIN result :
            k \in DOMAIN result' /\ IsPrefixOf(result[k], result'[k])

\* C4: while rawArgsMap scans, the value list of a key only grows by
\* appending.
C4_Accumulate == [][C4_Step]_vars

\* a key that occurred twice, with a value at each occurrence, the second
\* value a cluster that names the key
C4_Witness ==
    /\ RawDone /\ Len(argv) = 4
    /\ IsShortFlag(argv[1]) /\ IsBare(argv[2])
    /\ IsLongFlag(argv[3]) /\ IsCluster(argv[4])
    /\ FlagKey(argv[1]) = FlagKey(argv[3])
    /\ <<argv[4][2]>> = FlagKey(argv[1])
    /\ result[FlagKey(argv[1])] = <<argv[2], argv[4]>>

-----------------------------------------------------------------------------
(* Properties of parse into a struct *)

ParsedStruct == call = "parse" /\ data.ptr /\ data.typ.kind = "struct"

RequiredErr == "required argument was not supplied"

\* the flag of field k is supplied: its lowercased name is a flag, or it
\* declares a short alias and the alias is a flag
HasAlias(k) == parseTagData(data.typ.fields[k].Tag).ShortFlag # <<>>
Supplied(k) ==
    \/ ToLower(data.typ.fields[k].Name) \in DOMAIN result
    \/ HasAlias(k) /\ parseTagData(data.typ.fields[k].Tag).ShortFlag \in DOMAIN result
IsRequired(k) == parseTagData(data.typ.fields[k].Tag).Required
IsNullable(k) == data.typ.fields[k].Type.kind = "ptr"

\* a step that is the iteration of parseStruct's loop for a considered field
FieldStep == InFields /\ ~Skipped /\ (fi' # fi \/ pc' # pc)

C5_Step ==
    FieldStep =>
        /\ (IsRequired(fi) /\ ~Supplied(fi)) => (pc' = "done" /\ err'.kind = RequiredErr)
        /\ Supplied(fi) => err'.kind # RequiredErr
        /\ (~IsRequired(fi) /\ ~Supplied(fi)) =>
                (err' = NoErr /\ pc' = pc /\ fi' = fi + 1 /\ dest' = dest)

\* C5: a required field whose flag is not supplied makes parse return the
\* required-argument error, a supplied flag never does, and an optional
\* field whose flag is not supplied is skipped without error.
C5_RequiredEnforced == [][C5_Step]_vars

\* C6: after parse into a record, every field whose flag the token list does
\* not supply is exactly as the caller passed it in.
C6_AbsentUntouched ==
    (ParsedStruct /\ pc = "done") =>
        \A k \in 1..NumField : ~Supplied(k) => dest.l[k] = orig.l[k]

\* C7: when the flag of a nullable field is present and its coercion fails,
\* parse returns the error and the field is as it was before the call.
C7_NoAllocationOnError ==
    (/\ ParsedStruct /\ pc = "done"
     /\ err # NoErr /\ err.kind # RequiredErr
     /\ IsNullable(fi) /\ Supplied(fi))
    => dest.l[fi] = orig.l[fi]

-----------------------------------------------------------------------------
(* Properties of parse into a slice and into a map *)

ParsedSlice == call = "parse" /\ data.ptr /\ data.typ.kind = "slice" /\ pc = "done"

ScalarKinds == {"string"} \cup IntKinds \cup UintKinds \cup FloatKinds

\* C8: parse into a list never runs the tokenizer; either every token
\* coerces and the destination is the list of the coerced tokens, one per
\* token in order, or parse returns an error and the destination is as before.
C8_SliceAllOrNothing ==
    ParsedSlice =>
        /\ iter = 0 /\ result = EmptyMap
        /\ err # NoErr => dest = orig
        /\ Elem(data.typ).kind \in ScalarKinds =>
            LET ek == Elem(data.typ).kind
                ok == \A k \in 1..Len(argv) : ParseScalar(ek, argv[k]).ok
            IN /\ ok <=> err = NoErr
               /\ ok => /\ dest.t = "slice"
                        /\ Len(dest.l) = Len(argv)
                        /\ \A k \in 1..Len(argv) : dest.l[k] = ParseScalar(ek, argv[k]).v

\* a list of numbers with earlier contents that a malformed token leaves alone
C8_Witness ==
    /\ ParsedSlice /\ Elem(data.typ).kind = "int8"
    /\ Len(argv) = 3 /\ ParseInt(argv[1], 8).ok /\ ~ParseInt(argv[3], 8).ok
    /\ orig.l # <<>> /\ dest = orig /\ err # NoErr

ParsedMap ==
    call = "parse" /\ data.ptr /\ data.typ.kind = "map" /\ pc = "done"
    /\ Key(data.typ).kind = "string"

\* C9: a string-valued dictionary fails exactly when some key has more than
\* one value and otherwise maps every key to its value or to ""; a
\* dynamic-valued dictionary never fails and maps every key to a marker, to
\* the inferred scalar (integer, else float, else string) or to the list.
C9_MapCardinality ==
    ParsedMap =>
        /\ Elem(data.typ).kind = "string" =>
            /\ err # NoErr <=> \E k \in DOMAIN result : Len(result[k]) > 1
            /\ err = NoErr =>
                /\ DOMAIN dest.m = DOMAIN result
                /\ \A k \in DOMAIN result :
                     dest.m[k] = StrV(IF result[k] = <<>> THEN <<>> ELSE result[k][1])
        /\ Elem(data.typ).kind = "interface" =>
            /\ err = NoErr
            /\ DOMAIN dest.m = DOMAIN result
            /\ \A k \in DOMAIN result :
                 LET value == result[k]
                 IN /\ Len(value) = 0 => dest.m[k] = Marker
                    /\ Len(value) > 1 => dest.m[k] = StrListV(value)
                    /\ Len(value) = 1 =>
                         /\ ParseInt(value[1], 64).ok =>
                              dest.m[k] = IntV("int64", ParseInt(value[1], 64).n)
                         /\ (~ParseInt(value[1], 64).ok /\ ParseFloat(value[1], 64).ok) =>
                              dest.m[k] = FloatV("float64", ParseFloat(value[1], 64).f)
                         /\ (~ParseInt(value[1], 64).ok /\ ~ParseFloat(value[1], 64).ok) =>
                              dest.m[k] = StrV(value[1])

\* a dynamic-valued dictionary holding an integer and a presence marker
C9_Witness ==
    /\ ParsedMap /\ Elem(data.typ).kind = "interface"
    /\ \E j, k \in DOMAIN dest.m : dest.m[j].t = "int64" /\ dest.m[k] = Marker

-----------------------------------------------------------------------------
(* Properties of Usage *)

\* the fields parseStruct considers
Considered(k) == data.typ.fields[k].PkgPath = <<>> /\ ~data.typ.fields[k].Anonymous

RECURSIVE LinesFrom(_)
LinesFrom(k) ==
    IF k > NumField THEN <<>>
    ELSE (IF Considered(k) THEN usageForField(data.typ.fields[k], dest.l[k]) ELSE <<>>)
         \o LinesFrom(k + 1)

NewLines(str) == Cardinality({ k \in 1..Len(str) : str[k] = "\n" })

\* C10: Usage of a record writes the header and one line per exported,
\* non-embedded field in declaration order and nothing else; a non-record
\* argument fails before anything is written.
C10_UsageLines ==
    (call = "Usage" /\ pc = "done") =>
        IF ~data.ptr /\ data.typ.kind = "struct"
        THEN /\ err = NoErr
             /\ out = UsageHeader \o LinesFrom(1)
             /\ NewLines(out) = 1 + Cardinality({ k \in 1..NumField : Considered(k) })
        ELSE err # NoErr /\ out = <<>>

-----------------------------------------------------------------------------
(* parse as a relation between its inputs and its outcomes: what another   *)
(* run given the same destination type, the same initial contents and the  *)
(* same rawData can return                                                  *)

Outcome(e, d) == [err |-> e, dest |-> d]

\* the loop of parseStruct from field k on, d the contents of the struct
RECURSIVE FieldsOutcome(_, _)
FieldsOutcome(k, d) ==
    IF k > NumField THEN Outcome(NoErr, d)
    ELSE LET field == data.typ.fields[k]
             name  == ToLower(field.Name)
             td    == parseTagData(field.Tag)
             found == name \in DOMAIN result \/ td.ShortFlag \in DOMAIN result
             fdata == IF name \in DOMAIN result THEN result[name]
                      ELSE result[td.ShortFlag]
         IN IF field.PkgPath # <<>> \/ field.Anonymous THEN FieldsOutcome(k + 1, d)
            ELSE IF ~found
            THEN IF ~td.Required THEN FieldsOutcome(k + 1, d)
                 ELSE Outcome(Error("required argument was not supplied", name), d)
            ELSE LET r  == AssignField(field, d.l[k], fdata, name)
                     d2 == [d EXCEPT !.l[k] = r.v]
                 IN IF r.err # NoErr THEN Outcome(r.err, d2)
                    ELSE FieldsOutcome(k + 1, d2)

\* the range loop of parseMap with the keys td still to visit, in every
\* order range can visit them; m is the contents of the map
RECURSIVE MapOutcomes(_, _)
MapOutcomes(m, td) ==
    IF td = {} THEN {Outcome(NoErr, MapV(m))}
    ELSE UNION {
        LET value == result[key]
        IN IF Elem(data.typ).kind = "string"
           THEN LET m2 == Put(m, key, StrV(IF Len(value) = 0 THEN <<>> ELSE value[1]))
                IN IF Len(value) > 1
                   THEN {Outcome(Error("more than once", key), MapV(m2))}
                   ELSE MapOutcomes(m2, td \ {key})
           ELSE MapOutcomes(Put(m, key, Infer(value)), td \ {key})
        : key \in td }

\* the outcomes of parse(data, argv) once getType has accepted data
ParseOutcomes ==
    CASE data.typ.kind = "struct" -> {FieldsOutcome(1, orig)}
      [] data.typ.kind = "slice"  ->
            {Outcome(fillSlice(data.typ, orig, argv).err, fillSlice(data.typ, orig, argv).v)}
      [] OTHER ->
            IF Elem(data.typ).kind \in {"string", "interface"}
            THEN MapOutcomes(orig.m, DOMAIN result)
            ELSE {Outcome(Error("invalid type for unmarshal", <<>>), orig)}

-----------------------------------------------------------------------------
(* Properties of parse as a whole *)

Returned == call = "parse" /\ pc = "done" /\ getType = NoErr

\* every run ends with one of the outcomes of ParseOutcomes
OutcomeListed == Returned => Outcome(err, dest) \in ParseOutcomes

\* C11: two runs of parse given equal token lists and equal initial
\* destinations end with the same error (or both succeed) and with equal
\* destination contents, for record, list and dictionary destinations.
C11_Deterministic ==
    Returned => \A o \in ParseOutcomes : o.err = err /\ o.dest = dest

\* the iteration of parseStruct's loop for a considered field that declares
\* no short alias and whose lowercased name is not a flag
NoAliasAbsent ==
    FieldStep /\ ~HasAlias(fi) /\ ToLower(data.typ.fields[fi].Name) \notin DOMAIN result

C12_Step ==
    NoAliasAbsent =>
        /\ dest' = dest
        /\ IsRequired(fi) => (pc' = "done" /\ err'.kind = RequiredErr)
        /\ ~IsRequired(fi) => (pc' = pc /\ fi' = fi + 1 /\ err' = NoErr)

\* C12: a field that declares no short alias and whose name is not a flag
\* is treated as absent for every token list, a bare "-" or "--" (the empty
\* key) included: it is not allocated or assigned, and if it is required
\* parse returns the required-argument error.
C12_NoAliasOnlyByName == [][C12_Step]_vars

====
